---- MODULE Spec2Model ----
(***************************************************************************)
(* The Electron main process of src/FirebaseAuth/main.js: the session      *)
(* record (authState), the shared HTTP client (axiosInstance), the push    *)
(* channel (mainProcessWebSocket), the connection monitor timer and the    *)
(* windows.  Every IPC handler, timer callback and socket / window         *)
(* callback is one action; an awaited request splits its handler into the  *)
(* step that issues the request and the step that runs the continuation.   *)
(***************************************************************************)
EXTENDS Integers, Sequences, FiniteSets, Bags, TLC

\* ------------------------------------------------------------------ bounds

\* socket objects in existence at once (the one held and the detached ones)
MaxSockets == 2
\* authenticate-user requests in flight at once
MaxPending == 2
\* BrowserWindows that exist at once
MaxWindows == 3
\* interval timers armed at once
MaxTimers == 2

\* ------------------------------------------------------- JavaScript values

NULL == "null"
UNDEFINED == "undefined"

\* an optional object: no value, or one value
None == <<>>
Some(x) == <<x>>

\* JavaScript truthiness of a string-or-null-or-undefined value
Truthy(v) == v \notin {NULL, UNDEFINED, ""}

\* a || b on such values
OrElse(a, b) == IF Truthy(a) THEN a ELSE b

\* list || [] on an optional list
OrEmptyList(l) == IF l = None THEN <<>> ELSE l[1]

\* connectionMonitorInterval when no timer is held
NoTimer == 0

TimerIds == 1..MaxTimers

\* ---------------------------------------------------------------- authState

EmptyAuthState ==
  [isAuthenticated |-> FALSE, token |-> NULL, userId |-> NULL,
   username |-> NULL, email |-> NULL, userData |-> None]

\* a record whose userData takes the email for the username
LoginAuthStateMixed(authToken, userInfo) ==
  [isAuthenticated |-> TRUE,
   token |-> authToken,
   userId |-> userInfo.userID,
   username |-> userInfo.username,
   email |-> userInfo.email,
   userData |-> Some([userId |-> userInfo.userID,
                      username |-> userInfo.email,
                      email |-> userInfo.email,
                      ownedCommunities |-> OrEmptyList(userInfo.ownedCommunities),
                      memberCommunities |-> OrEmptyList(userInfo.memberCommunities)])]

\* the record authenticateUser builds from a login response
LoginAuthState(authToken, userInfo) ==
  [isAuthenticated |-> TRUE,
   token |-> authToken,
   userId |-> userInfo.userID,
   username |-> userInfo.username,
   email |-> userInfo.email,
   userData |-> Some([userId |-> userInfo.userID,
                      username |-> userInfo.username,
                      email |-> userInfo.email,
                      ownedCommunities |-> OrEmptyList(userInfo.ownedCommunities),
                      memberCommunities |-> OrEmptyList(userInfo.memberCommunities)])]

\* the 'user-data' payload built from authState
UserDataToSend(as) ==
  [username |-> OrElse(as.username, "Unknown"),
   userId |-> as.userId,
   email |-> as.email,
   isAuthenticated |-> as.isAuthenticated,
   token |-> as.token,
   serviceInitialized |-> as.isAuthenticated,
   ownedCommunities |-> IF as.userData = None THEN <<>> ELSE as.userData[1].ownedCommunities,
   memberCommunities |-> IF as.userData = None THEN <<>> ELSE as.userData[1].memberCommunities]

\* ------------------------------------------------- what the remote can answer

UserAlice ==
  [userID |-> "u1", username |-> "alice", email |-> "alice@x",
   ownedCommunities |-> Some(<<"g1">>), memberCommunities |-> Some(<<"g2">>)]
UserBob ==
  [userID |-> "u2", username |-> "bob", email |-> "bob@x",
   ownedCommunities |-> None, memberCommunities |-> None]
\* a user object without userID
UserNoId ==
  [userID |-> UNDEFINED, username |-> "carol", email |-> "carol@x",
   ownedCommunities |-> None, memberCommunities |-> None]
\* a userID that makes the channel URL carry a fragment
UserHash ==
  [userID |-> "u#3", username |-> "dave", email |-> "dave@x",
   ownedCommunities |-> None, memberCommunities |-> None]

Reply(success, message, token, customToken, user) ==
  [success |-> success, message |-> message, token |-> token,
   customToken |-> customToken, user |-> user]

\* bodies of POST /api/auth/login answered with 2xx
LoginReplies ==
  { Reply(TRUE, UNDEFINED, "t1", UNDEFINED, Some(UserAlice)),
    Reply(TRUE, UNDEFINED, UNDEFINED, "c2", Some(UserBob)),
    Reply(TRUE, UNDEFINED, UNDEFINED, UNDEFINED, Some(UserAlice)),
    Reply(TRUE, UNDEFINED, "t1", UNDEFINED, Some(UserNoId)),
    Reply(TRUE, UNDEFINED, "t1", UNDEFINED, Some(UserHash)),
    Reply(TRUE, UNDEFINED, "t1", UNDEFINED, None),
    Reply(FALSE, "Invalid credentials", UNDEFINED, UNDEFINED, None) }

\* getFirebaseErrorMessage(error) of the web page's login and signup forms
GetFirebaseErrorMessage(error) ==
  CASE error.code = "auth/email-already-in-use" -> "An account with this email already exists"
    [] error.code = "auth/invalid-email" -> "Please enter a valid email address"
    [] error.code = "auth/weak-password" -> "Password should be at least 6 characters"
    [] error.code = "auth/user-not-found" -> "No account found with this email"
    [] error.code = "auth/wrong-password" -> "Incorrect password"
    [] error.code = "auth/too-many-requests" -> "Too many failed attempts. Please try again later"
    [] OTHER -> IF error.message \notin {"", NULL, UNDEFINED}
                THEN error.message ELSE "An error occurred. Please try again"

\* how an awaited login request ends: a 2xx body, or a rejection of the promise
\* (the remote refused the credentials with the failure code `code`)
LoginOutcomes ==
  { [rejected |-> FALSE, code |-> "", message |-> "", data |-> r] : r \in LoginReplies }
  \cup { [rejected |-> TRUE, code |-> "auth/wrong-password",
          message |-> "Request failed with status code 401",
          data |-> Reply(FALSE, UNDEFINED, UNDEFINED, UNDEFINED, None)] }

\* ------------------------------------------------------------------- JSON

\* objects a renderer can pass to 'websocket-send' (structured clone carries
\* BigInt values, which JSON.stringify refuses)
SendMessages ==
  { [type |-> "ping", n |-> "1"], [type |-> "big", n |-> "1n"] }

\* a JSON.stringify that serializes a BigInt instead of refusing it
JSONstringifyAnything(m) ==
  [threw |-> FALSE, text |-> "{\"type\":\"" \o m.type \o "\",\"n\":" \o m.n \o "}",
   error |-> ""]

\* JSON.stringify(message): the text, or a TypeError
JSONstringify(m) ==
  IF m.n = "1n"
  THEN [threw |-> TRUE, text |-> "", error |-> "Do not know how to serialize a BigInt"]
  ELSE [threw |-> FALSE, text |-> "{\"type\":\"" \o m.type \o "\",\"n\":" \o m.n \o "}",
        error |-> ""]

\* frames the remote end can push
InboundFrames == { "{\"type\":\"chat\"}", "chat" }

\* a JSON.parse that accepts any text
JSONparseAnything(text) == [threw |-> FALSE, value |-> [type |-> "chat"]]

\* JSON.parse(data): the decoded value, or a SyntaxError
JSONparse(text) ==
  IF text = "{\"type\":\"chat\"}"
  THEN [threw |-> FALSE, value |-> [type |-> "chat"]]
  ELSE [threw |-> TRUE, value |-> [type |-> ""]]

\* ------------------------------------------------------------------ state

VARIABLES
  phase,                    \* "loading" until app.whenReady, "running", "quit" after app.quit()
  authState,                \* the session record
  axiosInstance,            \* None, or Some([Authorization |-> defaults.headers.common])
  mainProcessWebSocket,     \* None, or Some(the socket object held)
  detached,                 \* the bag of socket objects no longer held whose callbacks can still fire
  connectionMonitorInterval, \* NoTimer, or the id setInterval returned
  timers,                   \* the interval timers that are armed
  mainWindow,               \* NULL, or a reference to one of the main windows
  authWindow,               \* NULL, or a reference to one of the auth windows
  windows,                  \* BrowserWindow.getAllWindows(): how many of each kind exist
  pending,                  \* authenticate-user requests awaiting the login response
  afterLogout,              \* logoutUser has returned and no login was issued since
  lastCall,                 \* the handler or callback that ran last, its input and result
  ipcOut,                   \* webContents.send calls of the last step, in order
  wsOut,                    \* socket.send calls of the last step
  httpOut,                  \* HTTP requests issued by the last step
  fanout,                   \* broadcastToAllWindows seen window by window: the list
                            \* getAllWindows() returns, what was published, what each got
  page                      \* the MenuLAUNCH web page: the state of HomaraMenu and
                            \* HomaraAuth and of the DOM elements they read and write

\* the variables of the Electron main process
mainVars ==
  <<phase, authState, axiosInstance, mainProcessWebSocket, detached,
    connectionMonitorInterval, timers, mainWindow, authWindow, windows, pending,
    afterLogout, lastCall, ipcOut, wsOut, httpOut>>

vars == <<mainVars, fanout, page>>

\* -------------------------------------------------------------- the client

\* axiosInstance.defaults.headers.common['Authorization']; UNDEFINED when absent
DefaultAuthorization == IF axiosInstance = None THEN UNDEFINED ELSE axiosInstance[1].Authorization

\* the request interceptor: the Authorization header a request leaves with
RequestAuthorization(as, defaultHeader) ==
  IF Truthy(as.token) THEN "Bearer " \o as.token ELSE defaultHeader

HttpRequest(method, url, as, defaultHeader) ==
  [method |-> method, url |-> url, Authorization |-> RequestAuthorization(as, defaultHeader)]

\* ------------------------------------------------------------ the channel

\* a socket object: its readyState and the userID of the URL it was opened with
Socket(readyState, userId) == [readyState |-> readyState, userId |-> userId]

\* readyStates in which a socket's callbacks can still fire
LiveStates == {"CONNECTING", "OPEN", "CLOSING"}

\* a close() that also acts on a socket that is already closing
WsCloseAgain(sock) ==
  IF sock.readyState \in {"CONNECTING", "OPEN"}
  THEN [sock EXCEPT !.readyState = "CLOSING"]
  ELSE [sock EXCEPT !.readyState = "CLOSED"]

\* socket.close(): starts the closing handshake (or aborts the opening one);
\* nothing on a socket that is closing or closed
WsClose(sock) ==
  IF sock.readyState \in {"CONNECTING", "OPEN"}
  THEN [sock EXCEPT !.readyState = "CLOSING"]
  ELSE sock

\* new WebSocket(url) throws a SyntaxError when the URL carries a fragment
WsUrlInvalid(userId) == userId = "u#3"

\* a socket the bridge let go of: kept while its callbacks can fire
Detach(det, sock) ==
  IF sock.readyState \in LiveStates THEN det (+) SetToBag({sock}) ELSE det

\* connectWebSocket(userId): the socket held and the detached ones after it,
\* and whether the constructor threw
ConnectWebSocket(held, det, userId) ==
  LET closed == IF held # None THEN Some(WsClose(held[1])) ELSE held
  IN  IF WsUrlInvalid(userId)
      THEN [held |-> closed, detached |-> det, threw |-> TRUE]
      ELSE [held |-> Some(Socket("CONNECTING", userId)),
            detached |-> IF closed # None THEN Detach(det, closed[1]) ELSE det,
            threw |-> FALSE]

\* the socket objects in existence stay within the bound
WithinSockets(held, det) ==
  (IF held = None THEN 0 ELSE 1) + BagCardinality(det) <= MaxSockets

\* every socket whose callbacks can fire: the one held, and the detached ones
SocketHandles ==
  (IF mainProcessWebSocket # None /\ mainProcessWebSocket[1].readyState \in LiveStates
   THEN {[held |-> TRUE, sock |-> mainProcessWebSocket[1]]}
   ELSE {})
  \cup {[held |-> FALSE, sock |-> k] : k \in BagToSet(detached)}

\* socket h.sock has become sock: the socket held, or the detached ones, after it
HeldAfter(h, sock) == IF h.held THEN Some(sock) ELSE mainProcessWebSocket
DetachedAfter(h, sock) ==
  IF h.held THEN detached ELSE Detach(detached (-) SetToBag({h.sock}), sock)

\* ---------------------------------------------------- connection monitoring

NewTimerId(tms) == CHOOSE t \in TimerIds \ tms : \A u \in TimerIds \ tms : t <= u

\* a startConnectionMonitoring that arms a timer without clearing the one held
StartWithoutClear(tms, interval) ==
  [timers |-> tms \cup {NewTimerId(tms)}, interval |-> NewTimerId(tms)]

\* startConnectionMonitoring(): clearInterval of the one held, then setInterval
StartConnectionMonitoring(tms, interval) ==
  LET cleared == IF interval # NoTimer THEN tms \ {interval} ELSE tms
  IN  [timers |-> cleared \cup {NewTimerId(cleared)}, interval |-> NewTimerId(cleared)]

\* a stopConnectionMonitoring that forgets the id without clearInterval
StopWithoutClear(tms, interval) == [timers |-> tms, interval |-> NoTimer]

\* stopConnectionMonitoring()
StopConnectionMonitoring(tms, interval) ==
  IF interval # NoTimer
  THEN [timers |-> tms \ {interval}, interval |-> NoTimer]
  ELSE [timers |-> tms, interval |-> interval]

\* ------------------------------------------------------------------ logout

\* a logoutUser that leaves the socket as it is
LogoutKeepingSocket(tms, interval, held, axios) ==
  LET mon == StopConnectionMonitoring(tms, interval)
  IN  [timers |-> mon.timers,
       interval |-> mon.interval,
       held |-> held,
       axios |-> IF axios # None THEN Some([Authorization |-> UNDEFINED]) ELSE axios,
       authState |-> EmptyAuthState]

\* logoutUser(): the timer, the socket held, the client and the session after it
LogoutUser(tms, interval, held, axios) ==
  LET mon == StopConnectionMonitoring(tms, interval)
  IN  [timers |-> mon.timers,
       interval |-> mon.interval,
       held |-> IF held # None THEN Some(WsClose(held[1])) ELSE held,
       axios |-> IF axios # None THEN Some([Authorization |-> UNDEFINED]) ELSE axios,
       authState |-> EmptyAuthState]

\* ----------------------------------------------------------------- windows

\* no window of either kind: those createAuthWindow makes ("auth") and those
\* createMainWindow makes ("main")
NoWindows == [auth |-> 0, main |-> 0]

CountWindows(wins) == wins.auth + wins.main

\* a BrowserWindow can be created within the bound
CanCreateWindow(wins) == CountWindows(wins) < MaxWindows

\* new BrowserWindow(...) of createAuthWindow ("auth") / createMainWindow ("main")
CreateWindow(wins, kind) == [wins EXCEPT ![kind] = @ + 1]

\* mainWindow.webContents.send(channel, data)
SendToMainWindow(channel, data) ==
  [to |-> "mainWindow", receivers |-> 1, channel |-> channel, data |-> data]

\* a broadcast that stops after the first window
BroadcastToFirstWindow(wins, channel, data) ==
  IF CountWindows(wins) = 0 THEN <<>>
  ELSE <<[to |-> "all", receivers |-> 1, channel |-> channel, data |-> data]>>

\* broadcastToAllWindows(channel, data): one send to each window that exists
BroadcastToAllWindows(wins, channel, data) ==
  IF CountWindows(wins) = 0 THEN <<>>
  ELSE <<[to |-> "all", receivers |-> CountWindows(wins), channel |-> channel, data |-> data]>>

\* -------------------------------------------------------------- last call

Ok == [success |-> TRUE, error |-> ""]
\* a catch block that reports the error as a success
FailureLost(message) == [success |-> TRUE, error |-> message]
Failure(message) == [success |-> FALSE, error |-> message]
NoArg == [none |-> TRUE]

Call(op, arg, ret) == [op |-> op, arg |-> arg, ret |-> ret]

\* ------------------------------------------------------------ the fan-out

\* windows in the list of getAllWindows() at once
MaxSurfaces == 2
\* events published in a run
MaxLog == 3

\* what the main process publishes: channel and data
FanoutEvents ==
  { [channel |-> "websocket-status", data |-> "connected"],
    [channel |-> "websocket-status", data |-> "disconnected"],
    [channel |-> "websocket-message", data |-> "chat"] }

\* a BrowserWindow of the list: whether it is destroyed, how many events had
\* been published when it was created, and what its webContents received
Surface(since) == [destroyed |-> FALSE, since |-> since, inbox |-> <<>>]

\* a forEach that ends at the first destroyed window (its send throws)
ForEachSendUntilDestroyed(list, event) ==
  [i \in DOMAIN list |->
     IF \E j \in 1..i : list[j].destroyed THEN list[i]
     ELSE [list[i] EXCEPT !.inbox = Append(@, event)]]

\* windows.forEach(window => { if (window && !window.isDestroyed())
\* window.webContents.send(channel, data) })
ForEachSend(list, event) ==
  [i \in DOMAIN list |->
     IF list[i].destroyed THEN list[i]
     ELSE [list[i] EXCEPT !.inbox = Append(@, event)]]

FanoutInit == [windows |-> <<Surface(0)>>, published |-> <<>>]

\* broadcastToAllWindows(channel, data)
Broadcast(event) ==
  /\ Len(fanout.published) < MaxLog
  /\ fanout' = [windows |-> ForEachSend(fanout.windows, event),
                published |-> Append(fanout.published, event)]
  /\ UNCHANGED <<mainVars, page>>

\* a window is torn down while the list still holds it
DestroySurface(i) ==
  /\ ~fanout.windows[i].destroyed
  /\ fanout' = [fanout EXCEPT !.windows[i].destroyed = TRUE]
  /\ UNCHANGED <<mainVars, page>>

\* new BrowserWindow(...): one more window in the list
OpenSurface ==
  /\ Len(fanout.windows) < MaxSurfaces
  /\ fanout' = [fanout EXCEPT !.windows = Append(@, Surface(Len(fanout.published)))]
  /\ UNCHANGED <<mainVars, page>>

FanoutNext ==
  \/ \E e \in FanoutEvents : Broadcast(e)
  \/ \E i \in DOMAIN fanout.windows : DestroySurface(i)
  \/ OpenSurface

\* ------------------------------------------------------------ the web page

\* characters a search query is typed from, and the length of a query
QueryChars == {"P", "o", " ", "&"}
MaxQuery == 3

\* a text as the sequence of its characters
HomeText == <<"H", "o", "m", "e">>
ApplyText == <<"A", "p", "p", "l", "y">>
BuildText == <<"B", "u", "i", "l", "d">>
CommunityPreviewText ==
  <<"C", "o", "m", "m", "u", "n", "i", "t", "y", " ", "P", "r", "e", "v", "i", "e", "w">>
EditYourPointText ==
  <<"E", "d", "i", "t", " ", "Y", "o", "u", "r", " ", "P", "o", "i", "n", "t">>
PointManagementText ==
  <<"P", "o", "i", "n", "t", " ", "M", "a", "n", "a", "g", "e", "m", "e", "n", "t">>
SettingsHelpText ==
  <<"S", "e", "t", "t", "i", "n", "g", "s", " ", "&", " ", "H", "e", "l", "p">>

\* menuConfig and bottomMenuConfig: the text of each .menu-item
MenuConfig ==
  {HomeText, ApplyText, BuildText, CommunityPreviewText, EditYourPointText,
   PointManagementText}
BottomMenuConfig == {SettingsHelpText}
MenuItemTexts == MenuConfig \cup BottomMenuConfig

UpperCase ==
  <<"A", "B", "C", "D", "E", "F", "G", "H", "I", "J", "K", "L", "M",
    "N", "O", "P", "Q", "R", "S", "T", "U", "V", "W", "X", "Y", "Z">>
LowerCase ==
  <<"a", "b", "c", "d", "e", "f", "g", "h", "i", "j", "k", "l", "m",
    "n", "o", "p", "q", "r", "s", "t", "u", "v", "w", "x", "y", "z">>

\* String.prototype.toLowerCase, character by character
LowerChar(c) ==
  IF \E i \in DOMAIN UpperCase : UpperCase[i] = c
  THEN LowerCase[CHOOSE i \in DOMAIN UpperCase : UpperCase[i] = c]
  ELSE c
StringToLowerCase(text) == [i \in DOMAIN text |-> LowerChar(text[i])]

\* String.prototype.trim() === ''
TrimIsEmpty(text) == \A i \in DOMAIN text : text[i] = " "

\* an includes that looks only at the start of the text
StartsWith(text, part) ==
  /\ Len(part) <= Len(text)
  /\ SubSeq(text, 1, Len(part)) = part

\* String.prototype.includes
Includes(text, part) ==
  \E k \in 0..(Len(text) - Len(part)) : SubSeq(text, k + 1, k + Len(part)) = part

\* the values the search input can hold
Queries == UNION { [1..n -> QueryChars] : n \in 0..MaxQuery }

\* values typed into the fields of the forms, as sequences of characters
Emails == {<<>>, <<" ">>, <<"a", "@", "b">>}
Usernames == {<<>>, <<" ">>, <<"n", "e", "o">>}
Passwords == {<<>>, <<"1", "2", "3", "4", "5">>, <<"1", "2", "3", "4", "5", "6">>}
SignupForms == [email : Emails, username : Usernames, password : Passwords]
LoginForms == [email : Emails, password : Passwords]

\* form.reset(): every field empty
NoSignup == [email |-> <<>>, username |-> <<>>, password |-> <<>>]
NoLogin == [email |-> <<>>, password |-> <<>>]

\* String.prototype.trim
RECURSIVE TrimStart(_)
TrimStart(text) == IF text # <<>> /\ Head(text) = " " THEN TrimStart(Tail(text)) ELSE text
RECURSIVE TrimEnd(_)
TrimEnd(text) ==
  IF text # <<>> /\ text[Len(text)] = " " THEN TrimEnd(SubSeq(text, 1, Len(text) - 1))
  ELSE text
Trim(text) == TrimEnd(TrimStart(text))

\* the shortest password handleSignup lets through
MinPassword == 6

\* how a call of Firebase's createUserWithEmailAndPassword or
\* signInWithEmailAndPassword ends
FirebaseOutcomes ==
  { [rejected |-> FALSE, code |-> "", message |-> ""],
    [rejected |-> TRUE, code |-> "auth/wrong-password", message |-> "Firebase: Error"],
    [rejected |-> TRUE, code |-> "auth/network-request-failed", message |-> ""] }

\* the page after `new HomaraMenu()`: init() has generated the items and set
\* the tooltip; window.homaraAuth does not exist yet (waitForFirebase "none"),
\* and homaraAuth tells whether its setupEventListeners has run
PageInit ==
  [isExpanded |-> FALSE, isHovered |-> FALSE, isMinimized |-> FALSE,
   sidebarClasses |-> {},
   menuTooltip |-> "Expand menu",
   pointerInside |-> FALSE,
   searchInput |-> <<>>,
   display |-> [t \in MenuItemTexts |-> ""],
   homaraAuth |-> FALSE,
   currentUser |-> NULL,
   authButtons |-> "", userProfile |-> "", profileIconCollapsed |-> "",
   firebase |-> FALSE,
   waitForFirebase |-> "none",
   pollScheduled |-> FALSE, timeoutPending |-> FALSE,
   authOverlay |-> FALSE, signupModal |-> FALSE, loginModal |-> FALSE,
   editProfileModal |-> FALSE,
   signupError |-> "", loginError |-> "", editProfileError |-> "",
   signupForm |-> NoSignup, loginForm |-> NoLogin,
   signupBtnDisabled |-> FALSE, loginBtnDisabled |-> FALSE,
   calls |-> {}, retries |-> {},
   event |-> "DOMContentLoaded"]

\* updateTooltipText()
UpdateTooltipText(p) ==
  [p EXCEPT !.menuTooltip =
     IF p.isMinimized THEN ""
     ELSE IF p.isExpanded THEN "Collapse menu"
     ELSE IF p.isHovered \/ "expanded" \in p.sidebarClasses THEN "Keep menu expanded"
     ELSE "Expand menu"]

\* HomaraAuth.updateProfileIconVisibility()
UpdateProfileIconVisibility(p) ==
  IF p.currentUser = NULL THEN [p EXCEPT !.profileIconCollapsed = "none"]
  ELSE IF "expanded" \notin p.sidebarClasses /\ "hovered" \notin p.sidebarClasses
  THEN [p EXCEPT !.profileIconCollapsed = "flex"]
  ELSE [p EXCEPT !.profileIconCollapsed = "none"]

\* if (window.homaraAuth && window.homaraAuth.updateProfileIconVisibility) ...
\* which returns at once while this.profileIconCollapsed is not set
IfAuthUpdateProfileIcon(p) == IF p.homaraAuth THEN UpdateProfileIconVisibility(p) ELSE p

\* HomaraAuth.updateAuthButtons(isAuthenticated, user)
UpdateAuthButtons(p, user) ==
  UpdateProfileIconVisibility(
    IF user # NULL
    THEN [p EXCEPT !.authButtons = "none", !.userProfile = "block",
                   !.profileIconCollapsed = "none"]
    ELSE [p EXCEPT !.authButtons = "flex", !.userProfile = "none",
                   !.profileIconCollapsed = "none"])

\* a togglePinnedState without the check of isMinimized
TogglePinnedAlways(p) ==
  LET q == [p EXCEPT !.isExpanded = ~p.isExpanded,
                     !.sidebarClasses = IF ~p.isExpanded THEN @ \cup {"expanded"}
                                        ELSE @ \ {"expanded"}]
  IN  IfAuthUpdateProfileIcon(UpdateTooltipText(q))

\* togglePinnedState()
TogglePinned(p) ==
  IF p.isMinimized THEN p
  ELSE LET q == [p EXCEPT !.isExpanded = ~p.isExpanded,
                          !.sidebarClasses = IF ~p.isExpanded THEN @ \cup {"expanded"}
                                             ELSE @ \ {"expanded"}]
       IN  IfAuthUpdateProfileIcon(UpdateTooltipText(q))

\* a filter that matches only at the start of an item's text
FilterMenuItemsAtStart(p, query) ==
  [p EXCEPT !.display =
     [t \in MenuItemTexts |->
        IF StartsWith(StringToLowerCase(t), StringToLowerCase(query)) THEN "flex" ELSE "none"]]

\* filterMenuItems(query)
FilterMenuItems(p, query) ==
  [p EXCEPT !.display =
     [t \in MenuItemTexts |->
        IF Includes(StringToLowerCase(t), StringToLowerCase(query)) THEN "flex" ELSE "none"]]

\* showAllMenuItems()
ShowAllMenuItems(p) == [p EXCEPT !.display = [t \in MenuItemTexts |-> "flex"]]

\* the page after a handler, with the event that ran it
After(p, event) ==
  /\ page' = [p EXCEPT !.event = event]
  /\ UNCHANGED <<mainVars, fanout>>

\* sidebar 'mouseenter': the pointer comes in
MouseEnter ==
  /\ ~page.pointerInside
  /\ LET q == [page EXCEPT !.pointerInside = TRUE]
     IN  After(IF ~q.isExpanded /\ ~q.isMinimized
               THEN IfAuthUpdateProfileIcon(UpdateTooltipText([q EXCEPT !.isHovered = TRUE]))
               ELSE q,
               "mouseenter")

\* sidebar 'mouseleave': the pointer goes out
MouseLeave ==
  /\ page.pointerInside
  /\ LET q == [page EXCEPT !.pointerInside = FALSE]
     IN  After(IF ~q.isExpanded /\ ~q.isMinimized
               THEN IfAuthUpdateProfileIcon(UpdateTooltipText([q EXCEPT !.isHovered = FALSE]))
               ELSE q,
               "mouseleave")

\* a click on the menu icon, or Ctrl+M / Cmd+M
TogglePinnedState == After(TogglePinned(page), "toggle")

\* a click on the minimize button: minimizeMenu()
MinimizeMenu ==
  After(UpdateTooltipText(
          [page EXCEPT !.isMinimized = TRUE, !.isExpanded = FALSE, !.isHovered = FALSE,
                       !.sidebarClasses = (@ \ {"expanded"}) \cup {"minimized"}]),
        "minimize")

\* a click on the pull tab: restoreMenu()
RestoreMenu ==
  After(UpdateTooltipText(
          [page EXCEPT !.isMinimized = FALSE, !.sidebarClasses = @ \ {"minimized"}]),
        "restore")

\* 'input' on the search box with its new value: handleSearch(value)
HandleSearch(query) ==
  /\ query # page.searchInput
  /\ LET q == [page EXCEPT !.searchInput = query]
     IN  After(IF TrimIsEmpty(query) THEN ShowAllMenuItems(q) ELSE FilterMenuItems(q, query),
               "input")

\* Enter in the search box: handleSearchSubmit(value) shows an alert when the
\* value is not blank, and changes nothing on the page
HandleSearchSubmit == After(page, "enter")

\* Escape in the search box: clearSearch()
ClearSearch == After(ShowAllMenuItems([page EXCEPT !.searchInput = <<>>]), "escape")

\* reject(new Error('Firebase loading timeout')): settles a pending promise,
\* and init's catch only logs
Reject(p) ==
  IF p.waitForFirebase = "pending" THEN [p EXCEPT !.waitForFirebase = "rejected"] ELSE p

\* resolve(): settles a pending promise, and init's then runs
\* setupEventListeners and setupAuthStateListener
Resolve(p) ==
  IF p.waitForFirebase = "pending"
  THEN [p EXCEPT !.waitForFirebase = "resolved", !.homaraAuth = TRUE]
  ELSE p

\* checkFirebase(): resolve when the Firebase globals are there, else poll
\* again in 100 ms
CheckFirebase(p) ==
  IF p.firebase THEN Resolve([p EXCEPT !.pollScheduled = FALSE])
  ELSE [p EXCEPT !.pollScheduled = TRUE]

\* the module script of Firebase has run: window.firebaseAuth and
\* window.createUserWithEmailAndPassword are set
FirebaseLoaded ==
  /\ ~page.firebase
  /\ After([page EXCEPT !.firebase = TRUE], "firebase-loaded")

\* 100 ms after DOMContentLoaded: window.homaraAuth = new HomaraAuth(), whose
\* init() calls waitForFirebase(): a first checkFirebase(), and the timeout
NewHomaraAuth ==
  /\ page.waitForFirebase = "none"
  /\ After(CheckFirebase([page EXCEPT !.waitForFirebase = "pending",
                                      !.timeoutPending = TRUE]),
           "new-homara-auth")

\* the 100 ms timer of a poll fires
PollFirebase ==
  /\ page.pollScheduled
  /\ After(CheckFirebase([page EXCEPT !.pollScheduled = FALSE]), "poll")

\* the 10 s timer fires
FirebaseTimeout ==
  /\ page.timeoutPending
  /\ After(Reject([page EXCEPT !.timeoutPending = FALSE]), "timeout")

\* the callback of onAuthStateChanged: firebase's current user is now `user`;
\* it runs once when the listener is registered, then at every change
AuthStateChanged(user) ==
  /\ page.homaraAuth
  /\ page.authButtons = "" \/ page.currentUser # user
  /\ After(UpdateAuthButtons([page EXCEPT !.currentUser = user], user),
           "auth-state-changed")

\* clearErrors() and clearForms()
ClearErrorsAndForms(p) ==
  [p EXCEPT !.signupError = "", !.loginError = "",
            !.signupForm = NoSignup, !.loginForm = NoLogin]

\* showSignupModal()
ShowSignupModal(p) ==
  [ClearErrorsAndForms(p) EXCEPT !.authOverlay = TRUE, !.signupModal = TRUE,
                                 !.loginModal = FALSE]

\* showLoginModal()
ShowLoginModal(p) ==
  [ClearErrorsAndForms(p) EXCEPT !.authOverlay = TRUE, !.loginModal = TRUE,
                                 !.signupModal = FALSE]

ShowModal(p, type) == IF type = "signup" THEN ShowSignupModal(p) ELSE ShowLoginModal(p)

\* closeModals()
CloseModals(p) ==
  ClearErrorsAndForms([p EXCEPT !.authOverlay = FALSE, !.signupModal = FALSE,
                                !.loginModal = FALSE])

\* showEditProfileModal(user)
ShowEditProfileModal(p) == [p EXCEPT !.authOverlay = TRUE, !.editProfileModal = TRUE]

\* closeEditProfileModal()
CloseEditProfileModal(p) ==
  [p EXCEPT !.authOverlay = FALSE, !.editProfileModal = FALSE, !.editProfileError = ""]

\* a validation of the sign-up form that does not look at the username
SignupValidationNoUsername(form) ==
  IF Trim(form.email) = <<>> \/ form.password = <<>>
  THEN "Please fill in all fields"
  ELSE IF Len(form.password) < MinPassword THEN "Password must be at least 6 characters"
  ELSE ""

\* the 'Basic validation' of handleSignup: the error it shows, '' when it passes
SignupValidation(form) ==
  IF Trim(form.email) = <<>> \/ Trim(form.username) = <<>> \/ form.password = <<>>
  THEN "Please fill in all fields"
  ELSE IF Len(form.password) < MinPassword THEN "Password must be at least 6 characters"
  ELSE ""

\* the 'Basic validation' of handleLogin
LoginValidation(form) ==
  IF Trim(form.email) = <<>> \/ form.password = <<>>
  THEN "Please fill in all fields"
  ELSE ""

\* a click on the Sign Up or Log In button of the sidebar: handleAuthClick(type)
HandleAuthClick(type) ==
  /\ page.authButtons # "none"
  /\ IF page.waitForFirebase # "none"
     THEN After(ShowModal(page, type), "auth-click")
     ELSE /\ type \notin page.retries
          /\ After([page EXCEPT !.retries = @ \cup {type}], "auth-click")

\* the 500 ms fallback timer of handleAuthClick
AuthClickRetry(type) ==
  /\ type \in page.retries
  /\ LET q == [page EXCEPT !.retries = @ \ {type}]
     IN  After(IF q.waitForFirebase # "none" THEN ShowModal(q, type) ELSE q, "auth-click-retry")

\* a click on 'switch to login' in the signup modal, or on 'switch to signup'
\* in the login modal
SwitchTo(type) ==
  /\ page.homaraAuth
  /\ IF type = "login" THEN page.signupModal ELSE page.loginModal
  /\ After(ShowModal(page, type), "switch")

\* a click on the close button of the signup or the login modal
CloseClick(type) ==
  /\ page.homaraAuth
  /\ IF type = "signup" THEN page.signupModal ELSE page.loginModal
  /\ After(CloseModals(page), "close-click")

\* a click on the overlay itself
OverlayClick ==
  /\ page.homaraAuth
  /\ page.authOverlay
  /\ After(CloseModals(page), "overlay-click")

\* Escape on the document
EscapeKey ==
  /\ page.homaraAuth
  /\ After(IF page.authOverlay THEN CloseModals(page)
           ELSE IF page.editProfileModal THEN CloseEditProfileModal(page)
           ELSE page,
           "escape-key")

\* a click on the profile card or on the profile icon, whose onclick
\* updateUserProfile set: showEditProfileModal(user)
ProfileClick ==
  /\ page.userProfile = "block" \/ page.profileIconCollapsed = "flex"
  /\ After(ShowEditProfileModal(page), "profile-click")

\* a click on the close button of the edit-profile modal
EditProfileCloseClick ==
  /\ page.homaraAuth
  /\ page.editProfileModal
  /\ After(CloseEditProfileModal(page), "edit-profile-close")

\* 'submit' of the edit-profile form: handleEditProfileSubmit
HandleEditProfileSubmit(username) ==
  /\ page.homaraAuth
  /\ page.editProfileModal
  /\ After(IF Trim(username) = <<>>
           THEN [page EXCEPT !.editProfileError = "Username is required"]
           ELSE CloseEditProfileModal(page),
           "edit-profile-submit")

\* 'submit' of the signup form with the fields as typed: handleSignup up to
\* the await
HandleSignup(form) ==
  /\ page.homaraAuth
  /\ page.signupModal /\ ~page.signupBtnDisabled
  /\ LET q == [page EXCEPT !.signupForm = form]
     IN  After(IF SignupValidation(form) # ""
               THEN [q EXCEPT !.signupError = SignupValidation(form)]
               ELSE [q EXCEPT !.signupBtnDisabled = TRUE, !.calls = @ \cup {"signup"}],
               "signup-submit")

\* 'submit' of the login form with the fields as typed: handleLogin up to
\* the await
HandleLogin(form) ==
  /\ page.homaraAuth
  /\ page.loginModal /\ ~page.loginBtnDisabled
  /\ LET q == [page EXCEPT !.loginForm = form]
     IN  After(IF LoginValidation(form) # ""
               THEN [q EXCEPT !.loginError = LoginValidation(form)]
               ELSE [q EXCEPT !.loginBtnDisabled = TRUE, !.calls = @ \cup {"login"}],
               "login-submit")

\* the awaited call of Firebase ends: the rest of handleSignup or handleLogin
FirebaseCallSettles(type, o) ==
  /\ type \in page.calls
  /\ LET q == [page EXCEPT !.calls = @ \ {type}]
         r == IF ~o.rejected THEN CloseModals(q)
              ELSE IF type = "signup"
              THEN [q EXCEPT !.signupError = GetFirebaseErrorMessage(o)]
              ELSE [q EXCEPT !.loginError = GetFirebaseErrorMessage(o)]
     IN  After(IF type = "signup" THEN [r EXCEPT !.signupBtnDisabled = FALSE]
               ELSE [r EXCEPT !.loginBtnDisabled = FALSE],
               "firebase-call-settled")

AuthTypes == {"signup", "login"}

\* the modals and forms of HomaraAuth
ModalNext ==
  \/ \E t \in AuthTypes : HandleAuthClick(t)
  \/ \E t \in AuthTypes : AuthClickRetry(t)
  \/ \E t \in AuthTypes : SwitchTo(t)
  \/ \E t \in AuthTypes : CloseClick(t)
  \/ OverlayClick
  \/ EscapeKey
  \/ ProfileClick
  \/ EditProfileCloseClick
  \/ \E u \in Usernames : HandleEditProfileSubmit(u)
  \/ \E f \in SignupForms : HandleSignup(f)
  \/ \E f \in LoginForms : HandleLogin(f)
  \/ \E t \in AuthTypes, o \in FirebaseOutcomes : FirebaseCallSettles(t, o)

\* the start of HomaraAuth
InitNext ==
  \/ FirebaseLoaded
  \/ NewHomaraAuth
  \/ PollFirebase
  \/ FirebaseTimeout

PageNext ==
  \/ InitNext
  \/ MouseEnter
  \/ MouseLeave
  \/ TogglePinnedState
  \/ MinimizeMenu
  \/ RestoreMenu
  \/ \E u \in {NULL, "user"} : AuthStateChanged(u)

SearchNext ==
  \/ \E q \in Queries : HandleSearch(q)
  \/ HandleSearchSubmit
  \/ ClearSearch

AuthNext ==
  \/ InitNext
  \/ \E u \in {NULL, "user"} : AuthStateChanged(u)
  \/ ModalNext

\* ------------------------------------------------------------------- Init

\* the main process after main.js has been loaded
MainInit ==
  /\ phase = "loading"
  /\ authState = EmptyAuthState
  /\ axiosInstance = None
  /\ mainProcessWebSocket = None
  /\ detached = EmptyBag
  /\ connectionMonitorInterval = NoTimer
  /\ timers = {}
  /\ mainWindow = NULL
  /\ authWindow = NULL
  /\ windows = NoWindows
  /\ pending = 0
  /\ afterLogout = FALSE
  /\ lastCall = Call("load", NoArg, Ok)
  /\ ipcOut = <<>>
  /\ wsOut = <<>>
  /\ httpOut = <<>>

\* the Electron application: the MenuLAUNCH page, a page of the web site, is
\* not part of it
Init ==
  /\ MainInit
  /\ fanout = FanoutInit
  /\ page = None

\* the MenuLAUNCH page once its DOMContentLoaded listeners have run
PageLoaded ==
  /\ MainInit
  /\ fanout = FanoutInit
  /\ page = PageInit

\* ---------------------------------------------------------------- actions

\* app.whenReady(): initializeMainProcessClients() and createAuthWindow()
AppReady ==
  /\ UNCHANGED <<fanout, page>>
  /\ phase = "loading"
  /\ phase' = "running"
  /\ axiosInstance' = Some([Authorization |-> UNDEFINED])
  /\ windows' = CreateWindow(windows, "auth")
  /\ authWindow' = "BrowserWindow"
  /\ lastCall' = Call("ready", NoArg, Ok)
  /\ ipcOut' = <<>> /\ wsOut' = <<>> /\ httpOut' = <<>>
  /\ UNCHANGED <<authState, mainProcessWebSocket, detached, connectionMonitorInterval,
                 timers, mainWindow, pending, afterLogout>>

\* a renderer exists to invoke an IPC handler
CanInvoke == phase = "running" /\ CountWindows(windows) > 0

\* ipcMain.handle('authenticate-user') up to the await of the login request
IssueLogin ==
  /\ UNCHANGED <<fanout, page>>
  /\ CanInvoke
  /\ afterLogout' = FALSE
  /\ ipcOut' = <<>> /\ wsOut' = <<>>
  /\ IF axiosInstance = None
     THEN /\ lastCall' = Call("authenticate-user", NoArg, Failure("API client not initialized"))
          /\ httpOut' = <<>>
          /\ UNCHANGED pending
     ELSE /\ pending < MaxPending
          /\ pending' = pending + 1
          /\ httpOut' = <<HttpRequest("post", "/api/auth/login", authState, DefaultAuthorization)>>
          /\ lastCall' = Call("authenticate-user-issued", NoArg, Ok)
  /\ UNCHANGED <<phase, authState, axiosInstance, mainProcessWebSocket, detached,
                 connectionMonitorInterval, timers, mainWindow, authWindow, windows>>

\* authenticateUser from the await on, when it ends in the catch block:
\* the error message, and whether authState had been replaced by then
LoginFailure(o) ==
  IF o.rejected THEN [failed |-> TRUE, error |-> o.message, assigned |-> FALSE]
  ELSE IF ~o.data.success
    THEN [failed |-> TRUE, error |-> OrElse(o.data.message, "Login failed"), assigned |-> FALSE]
  ELSE IF o.data.user = None
    THEN [failed |-> TRUE, error |-> "Cannot read properties of undefined (reading 'userID')",
          assigned |-> FALSE]
  ELSE IF WsUrlInvalid(o.data.user[1].userID)
    THEN [failed |-> TRUE, error |-> "The URL contains a fragment identifier", assigned |-> TRUE]
  ELSE [failed |-> FALSE, error |-> "", assigned |-> TRUE]

\* an authToken that ignores customToken
AuthTokenOnly(data) == data.token

\* const authToken = response.data.token || response.data.customToken
AuthToken(data) == OrElse(data.token, data.customToken)

\* axiosInstance.defaults.headers.common['Authorization'] = `Bearer ${authToken}`
WithBearer(axios, authToken) ==
  IF axios # None THEN Some([Authorization |-> "Bearer " \o authToken]) ELSE axios

\* the continuation of ipcMain.handle('authenticate-user') when a login request
\* ends with outcome o: the rest of authenticateUser, then the handler's own
\* window switch
ResolveLogin(o) ==
  LET f == LoginFailure(o)
      userInfo == o.data.user[1]
      newAuth == LoginAuthState(AuthToken(o.data), userInfo)
      conn == ConnectWebSocket(mainProcessWebSocket, detached, userInfo.userID)
      mon == StartConnectionMonitoring(timers, connectionMonitorInterval)
      \* what the login answered, and whether it found the empty record
      LoginArg(r) == [response |-> r.data, rejected |-> r.rejected,
                      error |-> [code |-> r.code, message |-> r.message],
                      fromEmpty |-> authState = EmptyAuthState]
  IN
  /\ UNCHANGED <<fanout, page>>
  /\ phase = "running"
  /\ pending > 0
  /\ pending' = pending - 1
  /\ wsOut' = <<>> /\ httpOut' = <<>>
  /\ UNCHANGED <<phase, afterLogout>>
  /\ IF f.failed
     THEN /\ lastCall' = Call("authenticate-user", LoginArg(o), Failure(f.error))
          /\ ipcOut' = <<>>
          /\ IF f.assigned
             THEN /\ authState' = newAuth
                  /\ axiosInstance' = WithBearer(axiosInstance, AuthToken(o.data))
                  /\ mainProcessWebSocket' = conn.held
                  /\ detached' = conn.detached
             ELSE UNCHANGED <<authState, axiosInstance, mainProcessWebSocket, detached>>
          /\ UNCHANGED <<connectionMonitorInterval, timers, mainWindow, authWindow, windows>>
     ELSE /\ WithinSockets(conn.held, conn.detached)
          /\ CanCreateWindow(windows)
          /\ TimerIds \ (timers \ {connectionMonitorInterval}) # {}
          /\ authState' = newAuth
          /\ axiosInstance' = WithBearer(axiosInstance, AuthToken(o.data))
          /\ mainProcessWebSocket' = conn.held
          /\ detached' = conn.detached
          /\ timers' = mon.timers
          /\ connectionMonitorInterval' = mon.interval
          /\ ipcOut' = IF mainWindow # NULL
                       THEN << SendToMainWindow("user-data", UserDataToSend(newAuth)),
                               SendToMainWindow("trigger-preload", NoArg) >>
                       ELSE <<>>
          /\ windows' = CreateWindow(windows, "main")
          /\ authWindow' = NULL
          /\ mainWindow' = "BrowserWindow"
          /\ lastCall' = Call("authenticate-user", LoginArg(o), Ok)

\* ipcMain.on('logout'): logoutUser(), close the main window, createAuthWindow()
IpcLogout ==
  LET out == LogoutUser(timers, connectionMonitorInterval, mainProcessWebSocket, axiosInstance)
  IN
  /\ UNCHANGED <<fanout, page>>
  /\ CanInvoke
  /\ CanCreateWindow(windows)
  /\ timers' = out.timers
  /\ connectionMonitorInterval' = out.interval
  /\ mainProcessWebSocket' = out.held
  /\ axiosInstance' = out.axios
  /\ authState' = out.authState
  /\ mainWindow' = NULL
  /\ windows' = CreateWindow(windows, "auth")
  /\ authWindow' = "BrowserWindow"
  /\ afterLogout' = TRUE
  /\ lastCall' = Call("logout", [again |-> lastCall.op = "logout"], Ok)
  /\ ipcOut' = <<>> /\ wsOut' = <<>> /\ httpOut' = <<>>
  /\ UNCHANGED <<phase, detached, pending>>

\* ipcMain.handle('websocket-send')
WebsocketSend(message) ==
  LET text == JSONstringify(message)
  IN
  /\ UNCHANGED <<fanout, page>>
  /\ CanInvoke
  /\ IF mainProcessWebSocket = None \/ mainProcessWebSocket[1].readyState # "OPEN"
     THEN /\ lastCall' = Call("websocket-send", message, Failure("WebSocket not connected"))
          /\ wsOut' = <<>>
     ELSE IF text.threw
     THEN /\ lastCall' = Call("websocket-send", message, Failure(text.error))
          /\ wsOut' = <<>>
     ELSE /\ lastCall' = Call("websocket-send", message, Ok)
          /\ wsOut' = <<[socket |-> mainProcessWebSocket[1], data |-> text.text]>>
  /\ ipcOut' = <<>> /\ httpOut' = <<>>
  /\ UNCHANGED <<phase, authState, axiosInstance, mainProcessWebSocket, detached,
                 connectionMonitorInterval, timers, mainWindow, authWindow, windows,
                 pending, afterLogout>>

\* methods a renderer can ask 'api-call' for
ApiMethods == {"GET", "patch"}

\* method.toLowerCase()
ToLowerCase(method) == IF method = "GET" THEN "get" ELSE method

\* the cases of the switch that issue a request
SupportedMethods == {"get", "post", "put", "delete"}

\* how an awaited request of 'api-call' ends: a 2xx answer, an answer with
\* another status (the promise rejects with error.response set; its body may
\* carry a message), or no answer at all
ApiOutcomes ==
  { [status |-> "200", body |-> [items |-> "x"], message |-> ""],
    [status |-> "404", body |-> [message |-> "Not found"],
     message |-> "Request failed with status code 404"],
    [status |-> "500", body |-> [message |-> UNDEFINED],
     message |-> "Request failed with status code 500"],
    [status |-> UNDEFINED, body |-> [message |-> UNDEFINED], message |-> "Network Error"] }

\* the calls a renderer can make: a method that issues a request, with the
\* way the request ends, or a method that issues none
ApiCalls ==
  { c \in [method : ApiMethods, outcome : ApiOutcomes \cup {NoArg}] :
      (c.outcome = NoArg) <=> (ToLowerCase(c.method) \notin SupportedMethods) }

\* an 'api-call' failure that reports nothing but the transport's message
ApiResultTransportOnly(o) ==
  IF o.status = "200" THEN [success |-> TRUE, data |-> o.body]
  ELSE [success |-> FALSE, error |-> o.message, status |-> o.status]

\* what 'api-call' returns
ApiOk(data) == [success |-> TRUE, data |-> data]
ApiFailure(error, status) == [success |-> FALSE, error |-> error, status |-> status]

\* the result of 'api-call' for an awaited request that ended with outcome o
ApiResult(o) ==
  IF o.status = "200" THEN ApiOk(o.body)
  ELSE ApiFailure(OrElse(o.body.message, o.message), o.status)

\* ipcMain.handle('api-call'): the request and its answer in one step, as the
\* continuation after the await reads nothing but the awaited result
ApiCall(c) ==
  LET method == c.method
      o == c.outcome
  IN
  /\ UNCHANGED <<fanout, page>>
  /\ CanInvoke
  /\ IF axiosInstance = None
     THEN /\ lastCall' = Call("api-call", [method |-> method],
                              Failure("API client not initialized"))
          /\ httpOut' = <<>>
     ELSE IF ToLowerCase(method) \notin SupportedMethods
     THEN /\ lastCall' = Call("api-call", [method |-> method],
                              ApiFailure("Unsupported HTTP method: " \o method, UNDEFINED))
          /\ httpOut' = <<>>
     ELSE /\ lastCall' = Call("api-call", [method |-> method, outcome |-> o], ApiResult(o))
          /\ httpOut' = <<HttpRequest(ToLowerCase(method), "/api/x", authState,
                                      DefaultAuthorization)>>
  /\ ipcOut' = <<>> /\ wsOut' = <<>>
  /\ UNCHANGED <<phase, authState, axiosInstance, mainProcessWebSocket, detached,
                 connectionMonitorInterval, timers, mainWindow, authWindow, windows,
                 pending, afterLogout>>

\* ipcMain.handle('get-user-data'): null, or the 'user-data' payload
GetUserData ==
  /\ UNCHANGED <<fanout, page>>
  /\ CanInvoke
  /\ lastCall' = Call("get-user-data", NoArg,
                      IF ~authState.isAuthenticated THEN [data |-> None]
                      ELSE [data |-> Some(UserDataToSend(authState))])
  /\ ipcOut' = <<>> /\ wsOut' = <<>> /\ httpOut' = <<>>
  /\ UNCHANGED <<phase, authState, axiosInstance, mainProcessWebSocket, detached,
                 connectionMonitorInterval, timers, mainWindow, authWindow, windows,
                 pending, afterLogout>>

\* ipcMain.handle('get-auth-state'): a copy of authState goes to the renderer
GetAuthState ==
  /\ UNCHANGED <<fanout, page>>
  /\ CanInvoke
  /\ lastCall' = Call("get-auth-state", NoArg, [data |-> authState])
  /\ ipcOut' = <<>> /\ wsOut' = <<>> /\ httpOut' = <<>>
  /\ UNCHANGED <<phase, authState, axiosInstance, mainProcessWebSocket, detached,
                 connectionMonitorInterval, timers, mainWindow, authWindow, windows,
                 pending, afterLogout>>

\* a .catch of the health check that ends the session
HealthCheckCatchReset(as) == EmptyAuthState

\* the .catch of the health check: console.log, authState as it is
HealthCheckCatch(as) == as

\* the health check a tick has just issued fails: its .catch callback runs (it
\* reads and writes no state, so where it runs among the other steps does not
\* matter; it is taken right after the tick)
HealthCheckFailed ==
  /\ UNCHANGED <<fanout, page>>
  /\ phase = "running"
  /\ lastCall.op = "tick" /\ httpOut # <<>>
  /\ authState' = HealthCheckCatch(authState)
  /\ lastCall' = Call("health-check-failed", NoArg, Ok)
  /\ ipcOut' = <<>> /\ wsOut' = <<>> /\ httpOut' = <<>>
  /\ UNCHANGED <<phase, axiosInstance, mainProcessWebSocket, detached,
                 connectionMonitorInterval, timers, mainWindow, authWindow, windows,
                 pending, afterLogout>>

\* the setInterval callback of startConnectionMonitoring, for an armed timer
Tick(t) ==
  LET down == mainProcessWebSocket = None \/ mainProcessWebSocket[1].readyState # "OPEN"
      reconnect == authState.isAuthenticated /\ down /\ Truthy(authState.userId)
      conn == ConnectWebSocket(mainProcessWebSocket, detached, authState.userId)
      threw == reconnect /\ conn.threw
  IN
  /\ UNCHANGED <<fanout, page>>
  /\ phase = "running"
  /\ t \in timers
  /\ reconnect => WithinSockets(conn.held, conn.detached)
  /\ IF reconnect
     THEN /\ mainProcessWebSocket' = conn.held
          /\ detached' = conn.detached
     ELSE UNCHANGED <<mainProcessWebSocket, detached>>
  /\ httpOut' = IF authState.isAuthenticated /\ ~threw /\ axiosInstance # None
                THEN <<HttpRequest("get", "/api/desktop/health", authState, DefaultAuthorization)>>
                ELSE <<>>
  /\ lastCall' = Call("tick", [connect |-> reconnect],
                      IF threw THEN Failure("The URL contains a fragment identifier") ELSE Ok)
  /\ ipcOut' = <<>> /\ wsOut' = <<>>
  /\ UNCHANGED <<phase, authState, axiosInstance, connectionMonitorInterval, timers,
                 mainWindow, authWindow, windows, pending, afterLogout>>

\* the 'open' callback of socket h: its handshake completed
SocketOpen(h) ==
  /\ UNCHANGED <<fanout, page>>
  /\ phase = "running"
  /\ h.sock.readyState = "CONNECTING"
  /\ mainProcessWebSocket' = HeldAfter(h, [h.sock EXCEPT !.readyState = "OPEN"])
  /\ detached' = DetachedAfter(h, [h.sock EXCEPT !.readyState = "OPEN"])
  /\ ipcOut' = BroadcastToAllWindows(windows, "websocket-status", [connected |-> TRUE])
  /\ lastCall' = Call("ws-open", NoArg, Ok)
  /\ wsOut' = <<>> /\ httpOut' = <<>>
  /\ UNCHANGED <<phase, authState, axiosInstance, connectionMonitorInterval, timers,
                 mainWindow, authWindow, windows, pending, afterLogout>>

\* the 'close' callback of socket h: it is closed (by either end)
SocketClose(h) ==
  /\ UNCHANGED <<fanout, page>>
  /\ phase = "running"
  /\ mainProcessWebSocket' = HeldAfter(h, [h.sock EXCEPT !.readyState = "CLOSED"])
  /\ detached' = DetachedAfter(h, [h.sock EXCEPT !.readyState = "CLOSED"])
  /\ ipcOut' = BroadcastToAllWindows(windows, "websocket-status", [connected |-> FALSE])
  /\ lastCall' = Call("ws-close", NoArg, Ok)
  /\ wsOut' = <<>> /\ httpOut' = <<>>
  /\ UNCHANGED <<phase, authState, axiosInstance, connectionMonitorInterval, timers,
                 mainWindow, authWindow, windows, pending, afterLogout>>

\* the 'error' callback of socket h; the socket then closes
SocketError(h) ==
  /\ UNCHANGED <<fanout, page>>
  /\ phase = "running"
  /\ mainProcessWebSocket' = HeldAfter(h, [h.sock EXCEPT !.readyState = "CLOSING"])
  /\ detached' = DetachedAfter(h, [h.sock EXCEPT !.readyState = "CLOSING"])
  /\ ipcOut' = BroadcastToAllWindows(windows, "websocket-error", [error |-> "socket error"])
  /\ lastCall' = Call("ws-error", NoArg, Ok)
  /\ wsOut' = <<>> /\ httpOut' = <<>>
  /\ UNCHANGED <<phase, authState, axiosInstance, connectionMonitorInterval, timers,
                 mainWindow, authWindow, windows, pending, afterLogout>>

\* the 'message' callback of socket h, which is open or has not finished its
\* closing handshake: a frame arrived
SocketMessage(h, data) ==
  LET message == JSONparse(data)
  IN
  /\ UNCHANGED <<fanout, page>>
  /\ phase = "running"
  /\ h.sock.readyState \in {"OPEN", "CLOSING"}
  /\ ipcOut' = IF message.threw THEN <<>>
               ELSE BroadcastToAllWindows(windows, "websocket-message", message.value)
  /\ lastCall' = Call("ws-message", [data |-> data], Ok)
  /\ wsOut' = <<>> /\ httpOut' = <<>>
  /\ UNCHANGED <<phase, authState, axiosInstance, mainProcessWebSocket, detached,
                 connectionMonitorInterval, timers, mainWindow, authWindow, windows,
                 pending, afterLogout>>

\* the state app.quit() leaves: 'before-quit' runs logoutUser(), every window
\* is destroyed and the process ends
Quit ==
  /\ phase' = "quit"
  /\ authState' = EmptyAuthState
  /\ axiosInstance' = None
  /\ mainProcessWebSocket' = None
  /\ detached' = EmptyBag
  /\ connectionMonitorInterval' = NoTimer
  /\ timers' = {}
  /\ mainWindow' = NULL
  /\ authWindow' = NULL
  /\ windows' = NoWindows
  /\ pending' = 0
  /\ afterLogout' = TRUE

\* a window of the given kind is gone (the user closed it, or a close()
\* completed): its 'closed' callback, then app 'window-all-closed' when it was
\* the last one.  darwin is process.platform === 'darwin', read only here: off
\* macOS the app quits, so a running app without windows is one on macOS
WindowClosed(kind, darwin) ==
  LET gone == [windows EXCEPT ![kind] = @ - 1]
      quitByAuth == kind = "auth" /\ mainWindow = NULL
      allClosed == CountWindows(gone) = 0
      out == LogoutUser(timers, connectionMonitorInterval, mainProcessWebSocket, axiosInstance)
  IN
  /\ UNCHANGED <<fanout, page>>
  /\ phase = "running"
  /\ windows[kind] > 0
  /\ allClosed \/ darwin
  /\ lastCall' = Call("window-closed", NoArg, Ok)
  /\ ipcOut' = <<>> /\ wsOut' = <<>> /\ httpOut' = <<>>
  /\ IF quitByAuth \/ (allClosed /\ ~darwin)
     THEN Quit
     ELSE /\ mainWindow' = IF kind = "main" THEN NULL ELSE mainWindow
          /\ authWindow' = IF kind = "auth" THEN NULL ELSE authWindow
          /\ windows' = gone
          /\ IF allClosed
             THEN /\ timers' = out.timers
                  /\ connectionMonitorInterval' = out.interval
                  /\ mainProcessWebSocket' = out.held
                  /\ axiosInstance' = out.axios
                  /\ authState' = out.authState
                  /\ afterLogout' = TRUE
             ELSE UNCHANGED <<timers, connectionMonitorInterval, mainProcessWebSocket,
                              axiosInstance, authState, afterLogout>>
          /\ UNCHANGED <<phase, detached, pending>>

\* app.on('activate') with no window left (the event is macOS only)
Activate ==
  /\ UNCHANGED <<fanout, page>>
  /\ phase = "running"
  /\ CountWindows(windows) = 0
  /\ windows' = CreateWindow(windows, "auth")
  /\ authWindow' = "BrowserWindow"
  /\ lastCall' = Call("activate", NoArg, Ok)
  /\ ipcOut' = <<>> /\ wsOut' = <<>> /\ httpOut' = <<>>
  /\ UNCHANGED <<phase, authState, axiosInstance, mainProcessWebSocket, detached,
                 connectionMonitorInterval, timers, mainWindow, pending, afterLogout>>

\* ------------------------------------------------------------ specification

Next ==
  \/ AppReady
  \/ IssueLogin
  \/ \E o \in LoginOutcomes : ResolveLogin(o)
  \/ IpcLogout
  \/ \E m \in SendMessages : WebsocketSend(m)
  \/ \E c \in ApiCalls : ApiCall(c)
  \/ GetUserData
  \/ GetAuthState
  \/ \E t \in TimerIds : Tick(t)
  \/ HealthCheckFailed
  \/ \E h \in SocketHandles : SocketOpen(h)
  \/ \E h \in SocketHandles : SocketClose(h)
  \/ \E h \in SocketHandles : SocketError(h)
  \/ \E h \in SocketHandles, d \in InboundFrames : SocketMessage(h, d)
  \/ \E k \in {"auth", "main"}, darwin \in BOOLEAN : WindowClosed(k, darwin)
  \/ Activate

Spec == Init /\ [][Next]_vars

\* broadcastToAllWindows on its own, over a list of windows some of which are
\* torn down
FanoutSpec == Init /\ [][FanoutNext]_vars

\* the MenuLAUNCH page: the sidebar events of HomaraMenu and the sign-in and
\* sign-out callbacks of HomaraAuth
PageSpec == PageLoaded /\ [][PageNext]_vars

\* the MenuLAUNCH page: the events of the search box
SearchSpec == PageLoaded /\ [][SearchNext]_vars

\* the MenuLAUNCH page: the start of HomaraAuth, its modals and its forms
AuthSpec == PageLoaded /\ [][AuthNext]_vars

\* an armed interval timer keeps firing; the remote end accepts the connection
\* of the socket held; a socket that was let go finishes closing
FairSpec ==
  /\ Spec
  /\ \A t \in TimerIds : WF_vars(Tick(t))
  /\ SF_vars(\E h \in SocketHandles : h.held /\ SocketOpen(h))
  /\ WF_vars(\E h \in SocketHandles : ~h.held /\ SocketClose(h))

\* ------------------------------------------------------------- properties

\* a value is present: neither null nor undefined
Present(v) == v \notin {NULL, UNDEFINED}

\* the last step was the return of an authenticate-user call / of a logout /
\* of a websocket-send
LoginReturned == lastCall.op = "authenticate-user" /\ lastCall.arg # NoArg
LogoutReturned == lastCall.op = "logout"
SendReturned == lastCall.op = "websocket-send"

\* the socket held is in one of the given readyStates
HeldIn(states) ==
  mainProcessWebSocket # None /\ mainProcessWebSocket[1].readyState \in states

\* C1: when a login was issued and logoutUser ran before its response arrived,
\* the step in which that pending login resolves leaves authState the empty
\* record.
C1_StaleLoginKeepsEmpty ==
  [][(afterLogout /\ authState = EmptyAuthState /\ pending > 0 /\ pending' < pending)
       => authState' = EmptyAuthState]_vars

\* C2: every authenticate-user call that returns success = false leaves
\* authState exactly as it was before the call returned, whatever made it fail.
C2_FailedLoginKeepsAuthState ==
  [][(lastCall'.op = "authenticate-user" /\ ~lastCall'.ret.success)
       => authState' = authState]_vars

\* C3: once logoutUser has returned, no step publishes an event to a window
\* until a later login is issued.
C3_NoEventAfterLogout ==
  [][afterLogout => ipcOut' = <<>>]_vars

\* C4: in every reachable state, isAuthenticated implies that token and userId
\* are both present (neither null nor undefined).
C4_AuthenticatedHasTokenAndUserId ==
  authState.isAuthenticated => Present(authState.token) /\ Present(authState.userId)

\* the record a login answered with response d leaves, field by field
PopulatedFrom(d) ==
  LET u == d.user[1]
  IN  [isAuthenticated |-> TRUE,
       token |-> IF d.token \in {NULL, UNDEFINED, ""} THEN d.customToken ELSE d.token,
       userId |-> u.userID,
       username |-> u.username,
       email |-> u.email,
       userData |-> <<[userId |-> u.userID,
                       username |-> u.username,
                       email |-> u.email,
                       ownedCommunities |->
                         IF u.ownedCommunities = <<>> THEN <<>> ELSE u.ownedCommunities[1],
                       memberCommunities |->
                         IF u.memberCommunities = <<>> THEN <<>> ELSE u.memberCommunities[1]]>>]

\* a successful login that found the empty record has just returned
LoginFromEmptyReturned ==
  LoginReturned /\ lastCall.ret.success /\ lastCall.arg.fromEmpty

C6_OneChannelDelivering ==
  (IF HeldIn(LiveStates) THEN 1 ELSE 0) + BagCardinality(detached) <= 1

C8_SecondLogoutChangesNothing ==
  [][(lastCall.op = "logout" /\ lastCall'.op = "logout")
       => /\ UNCHANGED <<authState, timers, connectionMonitorInterval, axiosInstance,
                         mainProcessWebSocket, detached>>
          /\ wsOut' = <<>>]_vars

\* a second logout in a row has returned, with the socket of the earlier
\* session still closing
C8_Witness ==
  LogoutReturned /\ lastCall.arg.again /\ HeldIn({"CLOSING"})

\* C9: a websocket-send made while authState is not authenticated returns the
\* not-connected failure and sends nothing on any socket.
C9_SendWhileLoggedOutFails ==
  (SendReturned /\ ~authState.isAuthenticated) =>
    /\ lastCall.ret = [success |-> FALSE, error |-> "WebSocket not connected"]
    /\ wsOut = <<>>

\* a websocket-send returned after a logout, the socket of the ended session
\* still being held
C9_Witness ==
  SendReturned /\ ~authState.isAuthenticated /\ afterLogout /\ HeldIn({"CLOSING"})

\* C10 as stated: websocket-send returns success, having sent the serialized
\* message, exactly when a socket is held and its readyState is OPEN.
C10_SendSucceedsIffOpen ==
  SendReturned =>
    /\ lastCall.ret.success <=> HeldIn({"OPEN"})
    /\ lastCall.ret.success <=> wsOut # <<>>

\* C10: websocket-send returns success exactly when a socket is held, its
\* readyState is OPEN and the message can be serialized; it has then sent the
\* JSON text of the message once, on the socket held.  In every other case it
\* returns a failure (the not-connected one unless the socket is open) and has
\* sent nothing.  It returns in the step of the call, without awaiting anything.
C10_SendSucceedsIffOpenAndSerializable ==
  SendReturned =>
    LET m == lastCall.arg
        serializable == m.n # "1n"
    IN  /\ lastCall.ret.success <=> (HeldIn({"OPEN"}) /\ serializable)
        /\ lastCall.ret.success =>
             wsOut = <<[socket |-> mainProcessWebSocket[1],
                        data |-> "{\"type\":\"ping\",\"n\":1}"]>>
        /\ ~lastCall.ret.success => wsOut = <<>>
        /\ ~HeldIn({"OPEN"}) =>
             lastCall.ret = [success |-> FALSE, error |-> "WebSocket not connected"]

\* a message that cannot be serialized was refused on an open socket
C10_Witness ==
  /\ SendReturned
  /\ HeldIn({"OPEN"})
  /\ lastCall.arg.n = "1n"
  /\ lastCall.ret = [success |-> FALSE, error |-> "Do not know how to serialize a BigInt"]

\* the last step was a run of the connection monitor's interval callback
TickReturned == lastCall.op = "tick"

\* C11: a tick that runs while authState is authenticated and the socket held is
\* absent or not open calls connectWebSocket and leaves a new socket held,
\* opened with the userId authState had before the tick, and leaves authState
\* unchanged.
C11_TickReopensWithSameUserId ==
  [][(lastCall'.op = "tick" /\ authState.isAuthenticated /\ ~HeldIn({"OPEN"}))
       => /\ lastCall'.arg.connect
          /\ mainProcessWebSocket' = <<[readyState |-> "CONNECTING", userId |-> authState.userId]>>
          /\ authState' = authState]_vars

\* C12: while authState stays authenticated and the monitor's timer armed, a
\* socket that is absent or not open is reopened by the ticks until one attempt
\* succeeds: with timers that keep firing and a remote end that accepts
\* connections, the socket held eventually is open (unless the session ends).
C12_DownLeadsToOpen ==
  (authState.isAuthenticated /\ timers # {} /\ ~HeldIn({"OPEN"}))
    ~> (HeldIn({"OPEN"}) \/ ~authState.isAuthenticated \/ timers = {})

\* C13: in every reachable state at most one interval timer is armed, and it
\* is the one connectionMonitorInterval refers to: arming a timer clears the
\* one held before.
C13_AtMostOneTimer ==
  /\ Cardinality(timers) <= 1
  /\ timers \subseteq {connectionMonitorInterval}

\* a login returned success while a session was already logged in, and one
\* timer is armed
C13_Witness ==
  /\ LoginReturned /\ lastCall.ret.success /\ ~lastCall.arg.fromEmpty
  /\ timers = {connectionMonitorInterval}

\* C14: in every reachable state the interval timer is armed exactly when
\* authState is authenticated.
C14_TimerArmedIffAuthenticated ==
  (timers # {}) <=> authState.isAuthenticated

\* C15: every request issued through axiosInstance carries Authorization
\* 'Bearer t' when authState.token is a present value t at the time it is
\* issued, and no Authorization header when authState.token is absent.
C15_BearerIffTokenPresent ==
  \A i \in DOMAIN httpOut :
    httpOut[i].Authorization =
      IF Present(authState.token) THEN "Bearer " \o authState.token ELSE UNDEFINED

\* the last step was the return of an 'api-call'
ApiReturned == lastCall.op = "api-call"

\* C16: 'api-call' returns {success: true, data: body} when the remote answers
\* 2xx; when the request fails it returns {success: false, error, status} with
\* the message of the remote's body, or else the error's own message, and the
\* status of the answer (undefined when there was none); for a method other
\* than get/post/put/delete it returns a failure and issues no request.
C16_ApiCallResult ==
  ApiReturned =>
    LET m == lastCall.arg.method
    IN  IF m \notin {"GET", "get", "post", "put", "delete"}
        THEN /\ lastCall.ret = [success |-> FALSE, error |-> "Unsupported HTTP method: patch",
                                status |-> UNDEFINED]
             /\ httpOut = <<>>
        ELSE LET o == lastCall.arg.outcome
             IN  /\ Len(httpOut) = 1 /\ httpOut[1].method = "get"
                 /\ o.status = "200" => lastCall.ret = [success |-> TRUE, data |-> o.body]
                 /\ o.status # "200" =>
                      lastCall.ret = [success |-> FALSE,
                                      error |-> IF Present(o.body.message)
                                                THEN o.body.message ELSE o.message,
                                      status |-> o.status]

\* an 'api-call' returned the remote's message and status for a refused request
C16_Witness ==
  /\ ApiReturned
  /\ lastCall.ret = [success |-> FALSE, error |-> "Not found", status |-> "404"]

\* C17: authenticate-user, api-call and websocket-send report each kind of
\* failure (rejected credentials, network failure, unsupported method, socket
\* not connected, send error) as a returned result with success = false, and
\* the process keeps running.
C17_FailuresAreReturned ==
  /\ (lastCall.op = "authenticate-user" /\ lastCall.arg # NoArg) =>
       /\ phase = "running"
       /\ (lastCall.arg.rejected \/ ~lastCall.arg.response.success) => ~lastCall.ret.success
  /\ ApiReturned =>
       /\ phase = "running"
       /\ lastCall.arg.method = "patch" => ~lastCall.ret.success
       /\ (lastCall.arg.method # "patch" /\ lastCall.arg.outcome.status # "200")
            => ~lastCall.ret.success
  /\ SendReturned =>
       /\ phase = "running"
       /\ (~HeldIn({"OPEN"}) \/ lastCall.arg.n = "1n") => ~lastCall.ret.success

\* an 'api-call' whose request got no answer returned the failure
C17_Witness ==
  /\ ApiReturned
  /\ lastCall.ret = [success |-> FALSE, error |-> "Network Error", status |-> UNDEFINED]

\* C18: a login that the remote rejects with a failure code of the mapping
\* table returns the table's message for that code; with any other code it
\* returns the error's own message, or the generic fallback when it has none.
C18_RejectedLoginReturnsMappedMessage ==
  (LoginReturned /\ lastCall.arg.rejected) =>
    lastCall.ret = Failure(GetFirebaseErrorMessage(lastCall.arg.error))

\* C19: every login that returns success publishes, in that step, one
\* user-data event carrying the new authState that reaches every window that
\* existed when the login resolved.
C19_LoginPublishesUserDataToAll ==
  [][(lastCall'.op = "authenticate-user" /\ lastCall'.ret.success /\ CountWindows(windows) > 0)
       => \E i \in DOMAIN ipcOut' :
            /\ ipcOut'[i].channel = "user-data"
            /\ ipcOut'[i].data = UserDataToSend(authState')
            /\ ipcOut'[i].receivers = CountWindows(windows)]_vars

\* C20: for every frame that arrives on a socket: when it parses as JSON, one
\* websocket-message event with the decoded value is sent to the windows that
\* exist; when it does not, nothing is sent; either way the sockets and
\* authState are unchanged.
C20_FramePublishedOnceOrDropped ==
  [][lastCall'.op = "ws-message" =>
       /\ ipcOut' = IF lastCall'.arg.data = "{\"type\":\"chat\"}" /\ CountWindows(windows) > 0
                    THEN <<[to |-> "all", receivers |-> CountWindows(windows),
                            channel |-> "websocket-message", data |-> [type |-> "chat"]]>>
                    ELSE <<>>
       /\ UNCHANGED <<authState, mainProcessWebSocket, detached>>]_vars

\* a frame that is not JSON arrived while windows existed, and nothing was sent
C20_Witness ==
  /\ lastCall.op = "ws-message"
  /\ lastCall.arg.data = "chat"
  /\ CountWindows(windows) > 0
  /\ ipcOut = <<>>

\* C21: the 'open' callback of every socket sends websocket-status with
\* connected = true, and the 'close' callback of every socket (closed by the
\* remote end, by logoutUser, by a re-login or by the monitor's reconnect) sends
\* websocket-status with connected = false, once to every window that exists.
C21_OpenAndCloseArePublished ==
  /\ lastCall.op = "ws-open" =>
       ipcOut = IF windows.auth + windows.main = 0 THEN <<>>
                ELSE <<[to |-> "all", receivers |-> windows.auth + windows.main,
                        channel |-> "websocket-status", data |-> [connected |-> TRUE]]>>
  /\ lastCall.op = "ws-close" =>
       ipcOut = IF windows.auth + windows.main = 0 THEN <<>>
                ELSE <<[to |-> "all", receivers |-> windows.auth + windows.main,
                        channel |-> "websocket-status", data |-> [connected |-> FALSE]]>>

\* the socket a re-login or a reconnect replaced has closed while two windows
\* existed, and both were told
C21_Witness ==
  /\ lastCall.op = "ws-close"
  /\ authState.isAuthenticated
  /\ HeldIn({"CONNECTING", "OPEN"})
  /\ CountWindows(windows) = 2
  /\ ipcOut # <<>> /\ ipcOut[1].receivers = 2

\* a login returned success while authState was not the empty record
ReLoginReturned ==
  LoginReturned /\ lastCall.ret.success /\ ~lastCall.arg.fromEmpty

\* C23: after a login that succeeds on top of a session (whichever of several
\* logins in flight resolves), authState is the record of that login's
\* response, the socket held is a new one opened with authState.userId, and
\* every socket in existence was opened with authState.userId: the one the
\* login replaced is gone.
C23_ReLoginLeavesOneSocket ==
  ReLoginReturned =>
    /\ authState = PopulatedFrom(lastCall.arg.response)
    /\ mainProcessWebSocket = <<[readyState |-> "CONNECTING", userId |-> authState.userId]>>
    /\ \A k \in BagToSet(detached) : k.userId = authState.userId

\* C24: authState and the client's default Authorization header change only in
\* the steps of a login (authenticateUser) or of logoutUser (the 'logout'
\* handler, window-all-closed, before-quit): api-call, websocket-send,
\* get-user-data, get-auth-state, the socket callbacks, the monitor's tick and a
\* failed health check leave both as they are.
C24_OnlyLoginAndLogoutChangeSession ==
  [][/\ (authState' # authState \/ DefaultAuthorization' # DefaultAuthorization)
          => lastCall'.op \in {"authenticate-user", "logout", "window-closed"}
     /\ lastCall'.op \in {"api-call", "websocket-send", "get-user-data", "get-auth-state",
                          "ws-open", "ws-close", "ws-error", "ws-message", "tick",
                          "health-check-failed"}
          => /\ authState' = authState
             /\ DefaultAuthorization' = DefaultAuthorization]_vars

\* a health check failed during a session, and the session is still there
C24_Witness ==
  /\ lastCall.op = "health-check-failed"
  /\ authState.isAuthenticated
  /\ DefaultAuthorization = "Bearer t1"

\* C25: in every reachable state authState is the empty record or the whole
\* record built from one login response, and the userId, username and email
\* inside userData equal those of authState.
C25_SessionRecordIsWhole ==
  /\ \/ authState = EmptyAuthState
     \/ \E d \in {r \in LoginReplies : r.user # <<>>} : authState = PopulatedFrom(d)
  /\ authState.userData # <<>> =>
       /\ authState.userData[1].userId = authState.userId
       /\ authState.userData[1].username = authState.username
       /\ authState.userData[1].email = authState.email

\* bob's record replaced alice's
C25_Witness ==
  /\ ReLoginReturned
  /\ authState.username = "bob"
  /\ authState.userData[1].ownedCommunities = <<>>

\* C22: a destroyed window of the list is passed over and receives nothing
\* more, every other window of the list receives the event, and what a window
\* has received is, in order, what was published since it was created (up to
\* its destruction).
C22_FanoutSkipsDestroyedKeepsOrder ==
  \A i \in DOMAIN fanout.windows :
    LET w == fanout.windows[i]
        n == Len(fanout.published)
    IN  /\ Len(w.inbox) <= n - w.since
        /\ w.inbox = SubSeq(fanout.published, w.since + 1, w.since + Len(w.inbox))
        /\ ~w.destroyed => Len(w.inbox) = n - w.since

\* the first window was destroyed after one event, and a window created later
\* has received the two events published since then, in order
C22_Witness ==
  /\ Len(fanout.windows) = 2
  /\ fanout.windows[1].destroyed /\ Len(fanout.windows[1].inbox) = 1
  /\ ~fanout.windows[2].destroyed
  /\ fanout.windows[2].inbox = <<[channel |-> "websocket-status", data |-> "disconnected"],
                                 [channel |-> "websocket-status", data |-> "connected"]>>
  /\ Len(fanout.published) = 3

\* the menu is in none of the pinned and minimized states
NeitherPinnedNorMinimized == ~page.isExpanded /\ ~page.isMinimized

\* C26: after every menu event the tooltip is '' when the menu is minimized,
\* 'Collapse menu' when it is pinned open, 'Keep menu expanded' when it is
\* neither and the pointer is inside the sidebar (expanded by hover), and
\* 'Expand menu' when it is neither and the pointer is outside (collapsed).
C26_TooltipFollowsMenuState ==
  page.menuTooltip =
    IF page.isMinimized THEN ""
    ELSE IF page.isExpanded THEN "Collapse menu"
    ELSE IF page.pointerInside THEN "Keep menu expanded"
    ELSE "Expand menu"

\* C27: in every reachable state in which the menu is neither pinned nor
\* minimized, isHovered is true exactly when the pointer is inside the sidebar.
C27_HoveredIffPointerInside ==
  NeitherPinnedNorMinimized => (page.isHovered <=> page.pointerInside)

\* C28: while the menu is minimized, togglePinnedState, mouseenter and
\* mouseleave leave isExpanded, isHovered, isMinimized, the sidebar's classes
\* and the tooltip as they are, and the only event after which the menu is no
\* longer minimized is restoreMenu.
C28_MinimizedIgnoresToggleAndHover ==
  [][page.isMinimized =>
       /\ page'.event \in {"toggle", "mouseenter", "mouseleave"} =>
            /\ page'.isExpanded = page.isExpanded
            /\ page'.isHovered = page.isHovered
            /\ page'.isMinimized = page.isMinimized
            /\ page'.sidebarClasses = page.sidebarClasses
            /\ page'.menuTooltip = page.menuTooltip
       /\ ~page'.isMinimized => page'.event = "restore"]_vars

\* the pin was toggled while the menu was minimized, and the menu is as
\* minimizeMenu left it
C28_Witness ==
  /\ page.event = "toggle"
  /\ page.isMinimized /\ ~page.isExpanded /\ ~page.isHovered
  /\ page.sidebarClasses = {"minimized"}
  /\ page.menuTooltip = ""

\* the items that are shown: style.display is not 'none'
VisibleItems == {t \in MenuItemTexts : page.display[t] # "none"}

\* text contains part, the case of letters set aside
ContainsIgnoringCase(text, part) ==
  \E k \in 0..(Len(text) - Len(part)) :
    \A j \in 1..Len(part) : LowerChar(text[k + j]) = LowerChar(part[j])

\* C29: after every event of the search box the items shown are those whose
\* text contains the value of the search input, the case of letters set
\* aside, and all of them when the value is empty or only spaces; after Escape
\* the value is empty and every item is shown.
C29_VisibleItemsMatchSearch ==
  /\ VisibleItems =
       IF \A i \in DOMAIN page.searchInput : page.searchInput[i] = " "
       THEN MenuItemTexts
       ELSE {t \in MenuItemTexts : ContainsIgnoringCase(t, page.searchInput)}
  /\ page.event = "escape" => page.searchInput = <<>> /\ VisibleItems = MenuItemTexts

\* 'P' followed by 'o' was typed: the two items with 'Point' are shown, the
\* other five are not
C29_Witness ==
  /\ page.event = "input"
  /\ page.searchInput = <<"P", "o">>
  /\ VisibleItems = {EditYourPointText, PointManagementText}

\* C30: once HomaraAuth has been told the sign-in state, the profile icon of the
\* collapsed sidebar is displayed when a user is signed in and the sidebar is
\* collapsed (not pinned open, not expanded by hover, not minimized), and is
\* hidden when the sidebar is pinned open or expanded by hover or nobody is
\* signed in.
C30_ProfileIconIffSignedInAndCollapsed ==
  page.authButtons # "" =>
    LET collapsed == ~page.isExpanded /\ ~page.isHovered /\ ~page.isMinimized
        open == page.isExpanded \/ page.isHovered
    IN  /\ (page.currentUser # NULL /\ collapsed) => page.profileIconCollapsed = "flex"
        /\ (page.currentUser = NULL \/ open) => page.profileIconCollapsed = "none"

\* waitForFirebase has settled
Settled == page.waitForFirebase \in {"resolved", "rejected"}

\* C32: waitForFirebase settles once and its polling ends: a check that finds
\* the Firebase globals resolves a pending promise, the timeout rejects a
\* pending promise, and once the promise is settled its outcome and the
\* initialization stay as they are and no poll schedules another poll.
C32_WaitForFirebaseSettlesOnceAndStopsPolling ==
  [][/\ (page.waitForFirebase = "pending" /\ page'.event = "poll" /\ page.firebase)
        => page'.waitForFirebase = "resolved"
     /\ (page.waitForFirebase = "pending" /\ page'.event = "timeout")
        => page'.waitForFirebase = "rejected"
     /\ Settled =>
          /\ page'.waitForFirebase = page.waitForFirebase
          /\ page'.homaraAuth = page.homaraAuth
          /\ page'.event = "poll" => ~page'.pollScheduled]_vars

\* one of the signup, login and edit-profile modals is active
SomeModalActive(p) == p.signupModal \/ p.loginModal \/ p.editProfileModal

\* C31: after closeModals has run (close button of the signup or login modal,
\* click on the overlay, Escape while the overlay is active) the overlay is
\* inactive and none of the signup, login and edit-profile modals is active;
\* and in every reachable state the overlay is active exactly when one of the
\* three modals is.
C31_CloseModalsClosesEveryModal ==
  [][/\ (\/ page'.event \in {"close-click", "overlay-click"}
         \/ page'.event = "escape-key" /\ page.authOverlay)
        => ~page'.authOverlay /\ ~SomeModalActive(page')
     /\ page'.authOverlay <=> SomeModalActive(page')]_vars

\* a sign-up form that handleSignup has to turn down: a field left empty, or
\* a password of fewer than 6 characters
SignupTurnedDown(form) ==
  \/ form.email = <<>> \/ form.username = <<>> \/ form.password = <<>>
  \/ Len(form.password) < 6

\* a login form that handleLogin has to turn down: a field left empty
LoginTurnedDown(form) == form.email = <<>> \/ form.password = <<>>

\* C33: a sign-up submitted with an empty email, username or password, or a
\* password shorter than 6 characters, and a login submitted with an empty
\* email or password, shows the validation error of its form and leaves the
\* calls of Firebase, the submit buttons, the overlay and the modals as they
\* were.
C33_InvalidSubmissionOnlyShowsError ==
  [][LET signup == page'.event = "signup-submit" /\ SignupTurnedDown(page'.signupForm)
         login == page'.event = "login-submit" /\ LoginTurnedDown(page'.loginForm)
     IN  /\ signup => page'.signupError \in {"Please fill in all fields",
                                              "Password must be at least 6 characters"}
         /\ login => page'.loginError = "Please fill in all fields"
         /\ (signup \/ login) =>
              /\ page'.calls = page.calls
              /\ page'.signupBtnDisabled = page.signupBtnDisabled
              /\ page'.loginBtnDisabled = page.loginBtnDisabled
              /\ page'.authOverlay = page.authOverlay
              /\ page'.signupModal = page.signupModal
              /\ page'.loginModal = page.loginModal
              /\ page'.editProfileModal = page.editProfileModal]_vars

\* a sign-up with a password of five characters was turned down: the error is
\* shown, the signup modal is still open, its button is enabled and no call
\* of Firebase is under way
C33_Witness ==
  /\ page.event = "signup-submit"
  /\ page.signupForm = [email |-> <<"a", "@", "b">>, username |-> <<"n", "e", "o">>,
                         password |-> <<"1", "2", "3", "4", "5">>]
  /\ page.signupError = "Password must be at least 6 characters"
  /\ page.signupModal /\ page.authOverlay
  /\ ~page.signupBtnDisabled /\ page.calls = {}

\* no socket callback is pending: every socket that was let go has delivered
\* its 'close', and the socket held is neither connecting nor closing
SocketCallbacksDelivered ==
  /\ detached = EmptyBag
  /\ ~HeldIn({"CONNECTING", "CLOSING"})

\* C34: when the step just taken published a channel-status and every pending
\* socket callback has been delivered, the value published, which is the most
\* recent one, tells whether the socket held is open.
C34_LastStatusTellsWhetherChannelIsOpen ==
  (/\ SocketCallbacksDelivered
   /\ ipcOut # <<>>
   /\ ipcOut[1].channel = "websocket-status")
    => (ipcOut[1].data.connected <=> HeldIn({"OPEN"}))

\* C35: every step that publishes a websocket-message is the 'message'
\* callback of the socket held, which is open and was opened with the userId
\* of authState: no frame of a socket that was replaced, or that logout
\* closed, is published.
C35_MessagesComeFromTheChannelHeld ==
  [][\A h \in SocketHandles, d \in InboundFrames :
       (SocketMessage(h, d) /\ ipcOut' # <<>>)
         => /\ h.held
            /\ h.sock.readyState = "OPEN"
            /\ h.sock.userId = authState.userId]_vars

\* C36: in every reachable state at most one main window exists, and
\* mainWindow is non-null exactly when it exists.
C36_AtMostOneMainWindow ==
  /\ windows.main <= 1
  /\ mainWindow # NULL <=> windows.main = 1

====
